---- MODULE Spec2Model ----
(***************************************************************************)
(* Model of the OTF attendance backend.                                    *)
(*                                                                         *)
(*   automation_service.py  get_attendance_via_playwright: validation,     *)
(*                          the straight-line Playwright script, the       *)
(*                          try / except / finally around it, and the      *)
(*                          digit filter and integer conversion.           *)
(*   app.py                 the import of the automation function, and     *)
(*                          the /api/attendance/yesterday route.           *)
(*                                                                         *)
(* Every Playwright call inside the try block either completes, raises     *)
(* PlaywrightTimeoutError, or raises another PlaywrightError; which one is *)
(* the environment's choice.  Starting the Playwright driver (the with     *)
(* statement) and browser.close() are taken to complete.  target_date only *)
(* feeds a log line and is not modelled.                                   *)
(***************************************************************************)
EXTENDS Naturals, Sequences, FiniteSets

VARIABLES
    STUDIO_PERFORMANCE_URL, \* automation_service.py module configuration
    OTF_USERNAME,           \* app.py module configuration
    OTF_PASSWORD,
    pc,                     \* position inside get_attendance_via_playwright
    username, password, studio_id,  \* its arguments
    browser,                \* the local `browser`: "none", "open", "closed"
    steps,                  \* the Playwright calls completed so far, in order
    attendance_text,        \* what text_content() returned
    exc,                    \* the exception in flight inside the try block
    fault,                  \* the call the environment failed, and how
    pending,                \* return value / exception waiting for `finally`
    result,                 \* what the caller of the function receives
    routePc,                \* position inside get_yesterday_attendance_route
    studio_id_req,          \* request.args.get('studio_id', TARGET_STUDIO_ID)
    routeCalled,            \* which function the route invoked
    response                \* the HTTP response of the route

vars == << STUDIO_PERFORMANCE_URL, OTF_USERNAME, OTF_PASSWORD,
           pc, username, password, studio_id, browser, steps, attendance_text,
           exc, fault, pending, result,
           routePc, studio_id_req, routeCalled, response >>

configVars == << STUDIO_PERFORMANCE_URL, OTF_USERNAME, OTF_PASSWORD >>
argVars    == << username, password, studio_id >>
routeVars  == << routePc, studio_id_req, routeCalled, response >>
callVars   == << pc, username, password, studio_id, browser, steps,
                 attendance_text, exc, fault, pending, result >>

----------------------------------------------------------------------------
(* Bounds and value universes *)

\* Longest extracted text the environment produces.
MaxLen == 3

\* Python's None, for values that are otherwise strings.
None == "<None>"

\* `not v` for a str-or-None value.
Falsy(v) == v = None \/ v = ""

\* Characters of the extracted text, by how str.isdigit() and int() treat them:
\*   "0" "1" "4"  ASCII decimal digits
\*   "ar3"        U+0663 ARABIC-INDIC DIGIT THREE: isdigit(), and int() reads 3
\*   "sup2"       U+00B2 SUPERSCRIPT TWO: isdigit(), but int() rejects it
\*   "," " "      neither
AsciiDigits      == {"0", "1", "4"}
OtherDecimals    == {"ar3"}
NonDecimalDigits == {"sup2"}
NonDigits        == {",", " "}
Alphabet         == AsciiDigits \cup OtherDecimals \cup NonDecimalDigits \cup NonDigits

Texts == UNION { [1..n -> Alphabet] : n \in 0..MaxLen }

NoneText    == [kind |-> "None", chars |-> << >>]
StrText(cs) == [kind |-> "str", chars |-> cs]

UsernameInputs == {None, "", "manager@studio"}
PasswordInputs == {None, "", "secret"}
StudioInputs   == {"0134", "9999"}

----------------------------------------------------------------------------
(* automation_service.py: the parse step *)

\* str.isdigit on one character.
IsDigit(c) == c \in AsciiDigits \cup OtherDecimals \cup NonDecimalDigits

\* ''.join(filter(str.isdigit, attendance_text))
CleanedText(text) == SelectSeq(text, IsDigit)

\* The value int() gives one decimal digit character.
DigitValue(c) ==
    CASE c = "0"   -> 0
      [] c = "1"   -> 1
      [] c = "4"   -> 4
      [] c = "ar3" -> 3

\* int() accepts a non-empty string of Unicode decimal digits (category Nd).
IntAccepts(s) == Len(s) > 0 /\ \A i \in 1..Len(s) : s[i] \in AsciiDigits \cup OtherDecimals

\* int(s), base 10, for a string int() accepts.
RECURSIVE IntOf(_)
IntOf(s) ==
    IF Len(s) = 0 THEN 0
    ELSE 10 * IntOf(SubSeq(s, 1, Len(s) - 1)) + DigitValue(s[Len(s)])

----------------------------------------------------------------------------
(* Exceptions and results *)

Exc(type, msg)  == [type |-> type, msg |-> msg]
NoExc           == Exc("none", << >>)
NoFault         == [step |-> "none", how |-> "none"]

NoResult        == [kind |-> "none",   type |-> "none", msg |-> << >>, value |-> 0]
Returns(n)      == [kind |-> "return", type |-> "int",  msg |-> << >>, value |-> n]
Raises(e)       == [kind |-> "raise",  type |-> e.type, msg |-> e.msg, value |-> 0]

\* The Playwright calls of the try block, in program order.
Script == << "launch", "new_context", "new_page", "goto_login",
             "wait_email", "fill_username", "click_next",
             "wait_password", "fill_password", "click_signin",
             "wait_confirm", "goto_performance",
             "wait_studio", "select_studio",
             "wait_tab", "click_tab",
             "wait_date", "click_date",
             "wait_attendance", "text_content" >>

Outcomes == {"ok", "timeout", "error"}

\* The exception a failed Playwright call raises.
PlaywrightExc(step, how) ==
    IF how = "timeout"
    THEN Exc("PlaywrightTimeoutError", << "Timeout 30000ms exceeded: ", step >>)
    ELSE Exc("PlaywrightError", << "Playwright failure: ", step >>)

----------------------------------------------------------------------------
(* automation_service.py: get_attendance_via_playwright *)

\* A direct call of get_attendance_via_playwright(username, password, studio_id, ...).
CallDirect ==
    /\ pc = "idle" /\ routePc = "idle"
    /\ \E u \in UsernameInputs, p \in PasswordInputs, s \in StudioInputs :
         /\ username' = u
         /\ password' = p
         /\ studio_id' = s
    /\ pc' = "validate"
    /\ UNCHANGED << configVars, browser, steps, attendance_text, exc, fault,
                    pending, result, routeVars >>

\* Validate with the password test left out of line 51.
Validate_NoPasswordCheck ==
    /\ pc = "validate"
    /\ IF Falsy(username)
       THEN /\ result' = Raises(Exc("ValueError", << "Username and Password are required." >>))
            /\ pc' = "done"
       ELSE IF STUDIO_PERFORMANCE_URL = ""
       THEN /\ result' = Raises(Exc("ValueError", << "STUDIO_PERFORMANCE_URL configuration is missing." >>))
            /\ pc' = "done"
       ELSE /\ pc' = "launch"
            /\ UNCHANGED result
    /\ UNCHANGED << configVars, argVars, browser, steps, attendance_text, exc,
                    fault, pending, routeVars >>

\* Lines 51-54: the two checks made before the with statement.  Their
\* ValueError is raised outside the try block and reaches the caller as is.
Validate ==
    /\ pc = "validate"
    /\ IF Falsy(username) \/ Falsy(password)
       THEN /\ result' = Raises(Exc("ValueError", << "Username and Password are required." >>))
            /\ pc' = "done"
       ELSE IF STUDIO_PERFORMANCE_URL = ""
       THEN /\ result' = Raises(Exc("ValueError", << "STUDIO_PERFORMANCE_URL configuration is missing." >>))
            /\ pc' = "done"
       ELSE /\ pc' = "launch"
            /\ UNCHANGED result
    /\ UNCHANGED << configVars, argVars, browser, steps, attendance_text, exc,
                    fault, pending, routeVars >>

\* One Playwright call inside the try block: it completes and control moves to
\* `next`, or it raises and control moves to the except clauses.
PlaywrightCall(step, next) ==
    /\ pc = step
    /\ \E how \in Outcomes :
         IF how = "ok"
         THEN /\ pc' = next
              /\ steps' = Append(steps, step)
              /\ UNCHANGED << exc, fault >>
         ELSE /\ pc' = "except"
              /\ exc' = PlaywrightExc(step, how)
              /\ fault' = [step |-> step, how |-> how]
              /\ UNCHANGED steps
    /\ UNCHANGED << configVars, argVars, pending, result, routeVars >>

\* A call whose failure is swallowed: control moves on either way.
OptionalCall(step, next) ==
    /\ pc = step
    /\ \E how \in Outcomes :
         /\ pc' = next
         /\ IF how = "ok"
            THEN steps' = Append(steps, step) /\ UNCHANGED fault
            ELSE fault' = [step |-> step, how |-> how] /\ UNCHANGED steps
    /\ UNCHANGED << configVars, argVars, exc, pending, result, routeVars >>

\* Line 71: browser = p.chromium.launch(...); `browser` is bound only on success.
Launch ==
    /\ PlaywrightCall("launch", "new_context")
    /\ browser' = IF pc' = "new_context" THEN "open" ELSE browser
    /\ UNCHANGED attendance_text

\* Lines 72-74
NewContext == PlaywrightCall("new_context", "new_page") /\ UNCHANGED << browser, attendance_text >>

\* Lines 75-77
NewPage == PlaywrightCall("new_page", "goto_login") /\ UNCHANGED << browser, attendance_text >>

\* Line 80
GotoLogin == PlaywrightCall("goto_login", "wait_email") /\ UNCHANGED << browser, attendance_text >>

\* Line 84
WaitEmail == PlaywrightCall("wait_email", "fill_username") /\ UNCHANGED << browser, attendance_text >>

\* Line 85
FillUsername == PlaywrightCall("fill_username", "click_next") /\ UNCHANGED << browser, attendance_text >>

\* Line 86
ClickNext == PlaywrightCall("click_next", "wait_password") /\ UNCHANGED << browser, attendance_text >>

\* Line 89
WaitPassword == PlaywrightCall("wait_password", "fill_password") /\ UNCHANGED << browser, attendance_text >>

\* Line 90
FillPassword == PlaywrightCall("fill_password", "click_signin") /\ UNCHANGED << browser, attendance_text >>

\* Line 91
ClickSignin == PlaywrightCall("click_signin", "wait_confirm") /\ UNCHANGED << browser, attendance_text >>

\* WaitConfirm without the inner try: a timeout reaches the outer except
\* clauses as the PlaywrightTimeoutError it is.
WaitConfirm_NoInnerTry ==
    PlaywrightCall("wait_confirm", "goto_performance") /\ UNCHANGED << browser, attendance_text >>

\* WaitConfirm with the failure swallowed: the script goes on to the
\* studio-performance page whether or not the marker appeared.
WaitConfirm_Swallowed ==
    OptionalCall("wait_confirm", "goto_performance") /\ UNCHANGED << browser, attendance_text >>

\* The ConnectionError the inner except clause raises (line 102).
LoginFailed == Exc("ConnectionError", << "Login failed or timed out.  Check credentials and MFA handling." >>)

\* Lines 95-102: the wait for the post-login marker, in its own try.  A
\* timeout is replaced by ConnectionError, raised inside the outer try; any
\* other Playwright error passes through to the outer except clauses.
WaitConfirm ==
    /\ pc = "wait_confirm"
    /\ \E how \in Outcomes :
         IF how = "ok"
         THEN /\ pc' = "goto_performance"
              /\ steps' = Append(steps, "wait_confirm")
              /\ UNCHANGED << exc, fault >>
         ELSE /\ pc' = "except"
              /\ exc' = IF how = "timeout" THEN LoginFailed
                        ELSE PlaywrightExc("wait_confirm", how)
              /\ fault' = [step |-> "wait_confirm", how |-> how]
              /\ UNCHANGED steps
    /\ UNCHANGED << configVars, argVars, pending, result, routeVars,
                    browser, attendance_text >>

\* Line 106
GotoPerformance == PlaywrightCall("goto_performance", "wait_studio") /\ UNCHANGED << browser, attendance_text >>

\* WaitStudio as an optional step: when the dropdown does not show, the
\* selection is skipped and the script goes on.
WaitStudio_Optional ==
    OptionalCall("wait_studio", "wait_tab") /\ UNCHANGED << browser, attendance_text >>

\* Line 112
WaitStudio == PlaywrightCall("wait_studio", "select_studio") /\ UNCHANGED << browser, attendance_text >>

\* Line 113
SelectStudio == PlaywrightCall("select_studio", "wait_tab") /\ UNCHANGED << browser, attendance_text >>

\* Line 117
WaitTab == PlaywrightCall("wait_tab", "click_tab") /\ UNCHANGED << browser, attendance_text >>

\* Line 118
ClickTab == PlaywrightCall("click_tab", "wait_date") /\ UNCHANGED << browser, attendance_text >>

\* Line 122
WaitDate == PlaywrightCall("wait_date", "click_date") /\ UNCHANGED << browser, attendance_text >>

\* Line 123
ClickDate == PlaywrightCall("click_date", "wait_attendance") /\ UNCHANGED << browser, attendance_text >>

\* Lines 127-128
WaitAttendance == PlaywrightCall("wait_attendance", "text_content") /\ UNCHANGED << browser, attendance_text >>

\* Line 129: text_content() gives a string, or None (its declared return type
\* is Optional[str]).
TextContent ==
    /\ PlaywrightCall("text_content", "parse")
    /\ IF pc' = "parse"
       THEN \E t \in {NoneText} \cup { StrText(cs) : cs \in Texts } : attendance_text' = t
       ELSE UNCHANGED attendance_text
    /\ UNCHANGED browser

\* The ValueError of line 135, citing the raw text.
NoNumberError(text) ==
    Exc("ValueError",
        << "Could not extract a valid attendance number from the page.  Text found: '" >>
           \o text \o << "'" >>)

\* ParseOutcome with a sentinel 0 in place of the ValueError of line 135.
ParseOutcome_SentinelZero(text) ==
    IF text.kind = "None"
    THEN Raises(Exc("TypeError", << "'NoneType' object is not iterable" >>))
    ELSE LET cleaned_text == CleanedText(text.chars) IN
         IF Len(cleaned_text) = 0
         THEN Returns(0)
         ELSE IF ~IntAccepts(cleaned_text)
         THEN Raises(Exc("ValueError",
                         << "invalid literal for int() with base 10: '" >>
                            \o cleaned_text \o << "'" >>))
         ELSE Returns(IntOf(cleaned_text))

\* What lines 133-138 do with the extracted text: the value returned, or the
\* exception raised inside the try block.
ParseOutcome(text) ==
    IF text.kind = "None"
    THEN Raises(Exc("TypeError", << "'NoneType' object is not iterable" >>))
    ELSE LET cleaned_text == CleanedText(text.chars) IN
         IF Len(cleaned_text) = 0
         THEN Raises(NoNumberError(text.chars))
         ELSE IF ~IntAccepts(cleaned_text)
         THEN Raises(Exc("ValueError",
                         << "invalid literal for int() with base 10: '" >>
                            \o cleaned_text \o << "'" >>))
         ELSE Returns(IntOf(cleaned_text))

\* Lines 133-138
Parse ==
    /\ pc = "parse"
    /\ LET o == ParseOutcome(attendance_text) IN
         IF o.kind = "return"
         THEN /\ pending' = o
              /\ pc' = "finally"
              /\ UNCHANGED exc
         ELSE /\ exc' = Exc(o.type, o.msg)
              /\ pc' = "except"
              /\ UNCHANGED pending
    /\ UNCHANGED << configVars, argVars, browser, steps, attendance_text, fault,
                    result, routeVars >>

\* An except clause of lines 140-148: the exception is replaced by a
\* ConnectionError whose message is `prefix` followed by the original message.
Handle(prefix) ==
    /\ pending' = Raises(Exc("ConnectionError", << prefix >> \o exc.msg))
    /\ exc' = NoExc
    /\ pc' = "finally"
    /\ UNCHANGED << configVars, argVars, browser, steps, attendance_text, fault,
                    result, routeVars >>

\* Lines 140-142
ExceptTimeout ==
    /\ pc = "except"
    /\ exc.type = "PlaywrightTimeoutError"
    /\ Handle("Timeout during browser automation: ")

\* Lines 143-145
ExceptPlaywrightError ==
    /\ pc = "except"
    /\ exc.type = "PlaywrightError"
    /\ Handle("Error during browser automation: ")

\* Lines 146-148: every other exception raised in the try block, the
\* ConnectionError of line 102 and the ValueError of line 135 included.
ExceptException ==
    /\ pc = "except"
    /\ exc.type \notin {"PlaywrightTimeoutError", "PlaywrightError"}
    /\ Handle("An unexpected error occurred during automation: ")

\* Finally with browser.close() at the end of the try block instead of in a
\* finally clause: it runs on the return path only.
Finally_CloseOnReturnOnly ==
    /\ pc = "finally"
    /\ browser' = IF browser # "none" /\ pending.kind = "return" THEN "closed" ELSE browser
    /\ result' = pending
    /\ pc' = "done"
    /\ UNCHANGED << configVars, argVars, steps, attendance_text, exc, fault,
                    pending, routeVars >>

\* Lines 149-152, then the return or raise that was waiting.
Finally ==
    /\ pc = "finally"
    /\ browser' = IF browser # "none" THEN "closed" ELSE browser
    /\ result' = pending
    /\ pc' = "done"
    /\ UNCHANGED << configVars, argVars, steps, attendance_text, exc, fault,
                    pending, routeVars >>

----------------------------------------------------------------------------
(* app.py: the import and the route *)

\* The names automation_service.py defines at module level.
AutomationServiceNames ==
    { "OTF_LOGIN_START_URL", "EXPECTED_POST_LOGIN_URL_PATTERN", "STUDIO_PERFORMANCE_URL",
      "EMAIL_INPUT_SELECTOR", "NEXT_BUTTON_SELECTOR", "PASSWORD_INPUT_SELECTOR",
      "SIGNIN_BUTTON_SELECTOR", "POST_LOGIN_CONFIRM_SELECTOR", "STUDIO_DROPDOWN_SELECTOR",
      "CLASS_ATTENDANCE_TAB_SELECTOR", "DATE_RANGE_SELECTOR_YESTERDAY",
      "TOTAL_ATTENDANCE_VALUE_SELECTOR", "STUDIO_SELECT_VALUE",
      "get_attendance_via_playwright" }

\* The name app.py asks automation_service for (line 21).
ImportedName == "get_attendance_from_portal"

\* Lines 18-26: what get_attendance_via_browser_use_api is bound to.  The
\* from-import of a name the module does not define raises ImportError, and
\* the except clause binds the fallback that raises ServiceUnavailable.
get_attendance_via_browser_use_api ==
    IF ImportedName \in AutomationServiceNames THEN ImportedName ELSE "fallback"

\* Line 33
TARGET_STUDIO_ID == "0134"

\* A JSON response of the route.
Response(status, error, details) ==
    [status |-> status, error |-> error, details |-> details,
     has_data |-> FALSE, total_attendance |-> 0, message |-> ""]

\* The 200 response of lines 117-127.
OkResponse(n, message) ==
    [status |-> 200, error |-> "", details |-> << >>,
     has_data |-> TRUE, total_attendance |-> n, message |-> message]

NoResponse == Response(0, "", << >>)

\* What the fallback of lines 25-26 does when called.
FallbackOutcome ==
    Raises(Exc("ServiceUnavailable", << "Automation service module not found or failed to import." >>))

\* Lines 80-147: the response for an outcome of the automation call.  llm is
\* what the Claude step did: "disabled", "text", "empty" or "error".
RouteResponse(outcome, llm) ==
    IF outcome.kind = "return"
    THEN OkResponse(outcome.value, IF llm = "text" THEN "claude" ELSE "fallback")
    ELSE CASE outcome.type = "BadRequest" -> Response(400, "bad request", outcome.msg)
           [] outcome.type = "ServiceUnavailable" ->
                  Response(503, "Failed to retrieve data.", outcome.msg)
           [] outcome.type = "InternalServerError" ->
                  Response(500, "Internal server configuration error.", << >>)
           [] outcome.type = "ConnectionError" ->
                  Response(503, "Failed to retrieve data from OTF Portal.", outcome.msg)
           [] outcome.type = "ValueError" ->
                  Response(500, "Error processing retrieved data.", outcome.msg)
           [] OTHER -> Response(500, "An unexpected server error occurred.", << >>)

\* RouteBegin without the studio check of lines 66-68.
RouteBegin_NoStudioCheck ==
    /\ routePc = "idle" /\ pc = "idle"
    /\ \E sid \in StudioInputs :
         /\ studio_id_req' = sid
         /\ IF Falsy(OTF_USERNAME) \/ Falsy(OTF_PASSWORD)
            THEN /\ response' = Response(500, "Internal Server Error",
                                         << "Backend OTF credentials not configured." >>)
                 /\ routePc' = "responded"
                 /\ UNCHANGED << routeCalled, pc, argVars >>
            ELSE /\ routeCalled' = get_attendance_via_browser_use_api
                 /\ routePc' = "calling"
                 /\ UNCHANGED response
                 /\ IF get_attendance_via_browser_use_api = "fallback"
                    THEN UNCHANGED << pc, argVars >>
                    ELSE /\ username' = OTF_USERNAME
                         /\ password' = OTF_PASSWORD
                         /\ studio_id' = sid
                         /\ pc' = "validate"
    /\ UNCHANGED << configVars, browser, steps, attendance_text, exc, fault,
                    pending, result >>

\* Lines 57-79 of get_yesterday_attendance_route: the credential check, the
\* studio check, and the call.  The two checks raise outside the try block;
\* Flask answers an escaping HTTPException with its status code.
RouteBegin ==
    /\ routePc = "idle" /\ pc = "idle"
    /\ \E sid \in StudioInputs :
         /\ studio_id_req' = sid
         /\ IF Falsy(OTF_USERNAME) \/ Falsy(OTF_PASSWORD)
            THEN /\ response' = Response(500, "Internal Server Error",
                                         << "Backend OTF credentials not configured." >>)
                 /\ routePc' = "responded"
                 /\ UNCHANGED << routeCalled, pc, argVars >>
            ELSE IF sid # TARGET_STUDIO_ID
            THEN /\ response' = Response(400, "Bad Request",
                                         << "MVP currently only supports Studio ID ", TARGET_STUDIO_ID >>)
                 /\ routePc' = "responded"
                 /\ UNCHANGED << routeCalled, pc, argVars >>
            ELSE /\ routeCalled' = get_attendance_via_browser_use_api
                 /\ routePc' = "calling"
                 /\ UNCHANGED response
                 /\ IF get_attendance_via_browser_use_api = "fallback"
                    THEN UNCHANGED << pc, argVars >>
                    ELSE /\ username' = OTF_USERNAME
                         /\ password' = OTF_PASSWORD
                         /\ studio_id' = sid
                         /\ pc' = "validate"
    /\ UNCHANGED << configVars, browser, steps, attendance_text, exc, fault,
                    pending, result >>

\* Lines 80-147: the rest of the try block and its except clauses, once the
\* call has returned or raised.
RouteFinish ==
    /\ routePc = "calling"
    /\ routeCalled = "fallback" \/ pc = "done"
    /\ LET outcome == IF routeCalled = "fallback" THEN FallbackOutcome ELSE result IN
         \E llm \in {"disabled", "text", "empty", "error"} :
             response' = RouteResponse(outcome, llm)
    /\ routePc' = "responded"
    /\ UNCHANGED << configVars, callVars, studio_id_req, routeCalled >>

----------------------------------------------------------------------------
(* The system *)

Init ==
    /\ STUDIO_PERFORMANCE_URL \in {"", "https://portal.example/studio-performance"}
    /\ OTF_USERNAME \in {None, "manager@studio"}
    /\ OTF_PASSWORD \in {None, "secret"}
    /\ pc = "idle"
    /\ username = None
    /\ password = None
    /\ studio_id = None
    /\ browser = "none"
    /\ steps = << >>
    /\ attendance_text = NoneText
    /\ exc = NoExc
    /\ fault = NoFault
    /\ pending = NoResult
    /\ result = NoResult
    /\ routePc = "idle"
    /\ studio_id_req = None
    /\ routeCalled = "none"
    /\ response = NoResponse

Next ==
    \/ CallDirect
    \/ Validate
    \/ Launch
    \/ NewContext
    \/ NewPage
    \/ GotoLogin
    \/ WaitEmail
    \/ FillUsername
    \/ ClickNext
    \/ WaitPassword
    \/ FillPassword
    \/ ClickSignin
    \/ WaitConfirm
    \/ GotoPerformance
    \/ WaitStudio
    \/ SelectStudio
    \/ WaitTab
    \/ ClickTab
    \/ WaitDate
    \/ ClickDate
    \/ WaitAttendance
    \/ TextContent
    \/ Parse
    \/ ExceptTimeout
    \/ ExceptPlaywrightError
    \/ ExceptException
    \/ Finally
    \/ RouteBegin
    \/ RouteFinish

Spec == Init /\ [][Next]_vars

----------------------------------------------------------------------------
(* Vocabulary of the properties *)

Range(s) == { s[i] : i \in 1..Len(s) }

IsPrefix(a, b) == Len(a) <= Len(b) /\ SubSeq(b, 1, Len(a)) = a

\* part occurs in msg as a run of consecutive elements.
Cites(msg, part) ==
    \E i \in 0..(Len(msg) - Len(part)) : SubSeq(msg, i + 1, i + Len(part)) = part

\* The Playwright calls begun so far: those completed and the one that failed.
Attempted == Range(steps) \cup ({fault.step} \ {"none"})

CredentialsGiven == ~Falsy(username) /\ ~Falsy(password)

RouteCredentialsConfigured == ~Falsy(OTF_USERNAME) /\ ~Falsy(OTF_PASSWORD)

DecimalDigits == AsciiDigits \cup OtherDecimals

IsDecimalDigit(c) == c \in DecimalDigits

HasDecimalDigit(cs) == \E i \in 1..Len(cs) : cs[i] \in DecimalDigits

\* The integer written by the decimal digits of cs, in their order.
DigitConcatenation(cs) == IntOf(SelectSeq(cs, IsDecimalDigit))

\* First element of the message every generic step timeout is reported with.
TimeoutPrefix == "Timeout during browser automation: "

\* The steps the script uses to select the studio and the date range.
SelectionSteps == {"wait_studio", "select_studio", "wait_date", "click_date"}

\* The order of steps within one retrieval.
StepOrder == << "goto_login", "fill_username", "click_next", "fill_password",
                "click_signin", "wait_confirm", "goto_performance",
                "select_studio", "click_date", "text_content" >>

InStepOrder(x) == x \in Range(StepOrder)

----------------------------------------------------------------------------
(* Properties *)

\* C1: a call with an empty (or missing) username or password, or with
\* STUDIO_PERFORMANCE_URL unset, never launches the browser or begins any
\* Playwright call, and ends by raising ValueError.
C1_ConfigurationFailsFast ==
    (pc # "idle" /\ (~CredentialsGiven \/ STUDIO_PERFORMANCE_URL = "")) =>
        /\ browser = "none"
        /\ Attempted = {}
        /\ pc \in {"validate", "done"}
        /\ pc = "done" => (result.kind = "raise" /\ result.type = "ValueError")

C1_Witness ==
    /\ pc = "done"
    /\ username = ""
    /\ password = "secret"
    /\ STUDIO_PERFORMANCE_URL # ""
    /\ result.type = "ValueError"
    /\ browser = "none"

\* C2: the function returns an integer only when every step of the script
\* completed and the extracted text held a digit; every other finished call
\* raised, and none returned a placeholder number or None.
C2_NoFabricatedSuccess ==
    pc = "done" =>
        /\ result.kind \in {"return", "raise"}
        /\ result.kind = "return" =>
               /\ steps = Script
               /\ fault = NoFault
               /\ attendance_text.kind = "str"
               /\ HasDecimalDigit(attendance_text.chars)
               /\ result.value \in Nat
        /\ ~(steps = Script /\ attendance_text.kind = "str"
               /\ HasDecimalDigit(attendance_text.chars)) =>
               (result.kind = "raise" /\ result.type \in {"ValueError", "ConnectionError"})

C2_Witness ==
    /\ pc = "done"
    /\ steps = Script
    /\ attendance_text = StrText(<< ",", " " >>)
    /\ result.kind = "raise"

\* C3: whenever the browser was launched, it has been closed by the time the
\* call is over, on the return path and on every raise path.
C3_BrowserReleased ==
    /\ ("launch" \in Range(steps) /\ pc = "done") => browser = "closed"
    /\ browser = "open" => pc \notin {"idle", "validate", "done"}

C3_Witness ==
    /\ pc = "done"
    /\ fault = [step |-> "wait_attendance", how |-> "timeout"]
    /\ result.kind = "raise"
    /\ browser = "closed"

\* C4: when the post-login marker times out, the caller gets a ConnectionError
\* carrying the login-failure message, which is not the message any generic
\* step timeout is reported with.
C4_LoginFailureDistinct ==
    (pc = "done" /\ fault = [step |-> "wait_confirm", how |-> "timeout"]) =>
        /\ result.kind = "raise"
        /\ result.type = "ConnectionError"
        /\ Cites(result.msg, LoginFailed.msg)
        /\ result.msg[1] # TimeoutPrefix

C4_Witness ==
    /\ pc = "done"
    /\ fault = [step |-> "wait_confirm", how |-> "timeout"]
    /\ result.type = "ConnectionError"
    /\ browser = "closed"

C6_OtherStudioAlways400 ==
    (routePc # "idle" /\ studio_id_req # TARGET_STUDIO_ID) =>
        /\ routeCalled = "none"
        /\ pc = "idle"
        /\ response.status = 400

\* C6, amended: a request for another studio never invokes the automation
\* function; it is answered 400 when both credentials are configured and 500
\* when one is missing, the credential check coming first.
C6_OtherStudioRejected ==
    (routePc # "idle" /\ studio_id_req # TARGET_STUDIO_ID) =>
        /\ routeCalled = "none"
        /\ pc = "idle"
        /\ routePc = "responded"
        /\ response.status = IF RouteCredentialsConfigured THEN 400 ELSE 500

C6_Witness ==
    /\ routePc = "responded"
    /\ studio_id_req = "9999"
    /\ RouteCredentialsConfigured
    /\ response.status = 400

\* C7: for an extracted text holding at least one decimal digit, a retrieval
\* whose steps all completed returns the integer written by the text's
\* decimal digits in their order.
C7_ReturnsDigitConcatenation ==
    (pc = "done" /\ steps = Script /\ attendance_text.kind = "str"
        /\ HasDecimalDigit(attendance_text.chars)) =>
        result = Returns(DigitConcatenation(attendance_text.chars))

\* C8: a request with both credentials configured and the supported studio
\* invokes the retrieval function of automation_service.py, and an integer it
\* returns is answered 200 with that integer as total_attendance.
C8_RouteReachesRetriever ==
    (routePc # "idle" /\ RouteCredentialsConfigured
        /\ studio_id_req = TARGET_STUDIO_ID) =>
        /\ routeCalled \in AutomationServiceNames
        /\ (routePc = "responded" /\ result.kind = "return") =>
               (response.status = 200 /\ response.total_attendance = result.value)

\* C9, as stated: a studio-selection or date-range step that times out does
\* not abort the retrieval.
C9_SelectionStepsOptional ==
    (fault.step \in SelectionSteps /\ fault.how = "timeout") =>
        /\ pc # "except"
        /\ pending.kind # "raise"
        /\ result.kind # "raise"

\* C9, amended: the studio-selection and date-range steps are required, like
\* the wait for the attendance element: when one of them fails, the retrieval
\* aborts without reading the attendance text and raises ConnectionError,
\* with the timeout message when the failure was a timeout.
C9_SelectionStepsRequired ==
    (fault.step \in SelectionSteps \cup {"wait_attendance"}) =>
        /\ pc \in {"except", "finally", "done"}
        /\ "text_content" \notin Attempted
        /\ pc = "done" =>
               /\ result.kind = "raise"
               /\ result.type = "ConnectionError"
               /\ fault.how = "timeout" => result.msg[1] = TimeoutPrefix

C9_Witness ==
    /\ pc = "done"
    /\ fault = [step |-> "wait_studio", how |-> "timeout"]
    /\ result.type = "ConnectionError"
    /\ result.msg[1] = TimeoutPrefix

\* C10: the steps of one retrieval happen in script order; the password is
\* not filled before the username was submitted, and neither the navigation
\* to the studio-performance page nor the text extraction is begun unless
\* the post-login marker appeared.
C10_StepsInOrder ==
    /\ IsPrefix(steps, Script)
    /\ IsPrefix(SelectSeq(steps, InStepOrder), StepOrder)
    /\ "fill_password" \in Attempted => "click_next" \in Range(steps)
    /\ "goto_performance" \in Attempted => "wait_confirm" \in Range(steps)
    /\ ("text_content" \in Attempted \/ attendance_text # NoneText) =>
           "wait_confirm" \in Range(steps)

C10_Witness ==
    /\ pc = "done"
    /\ steps = Script
    /\ result.kind = "return"

====
